---------------------------- MODULE Spec2Model ----------------------------
(***************************************************************************)
(* AI-Paraphraser: the in-memory store (MemStorage: bounded history and    *)
(* the daily word counter) and the request handlers of the server that     *)
(* use it.                                                                  *)
(*                                                                         *)
(* The specifications share the variables:                                 *)
(*   SpecHistory  any sequence of calls of MemStorage's history methods,   *)
(*                with enough calls to pass the limit of 50 items;         *)
(*   SpecUsage    any sequence of calls of MemStorage's usage methods,     *)
(*                across calendar days;                                    *)
(*   SpecStore    any sequence of calls of all methods of MemStorage, on   *)
(*                a history of a few items;                                *)
(*   Spec         the server: the HTTP handlers of routes.ts, interleaved  *)
(*                while they await the AI service, calling the store;      *)
(*   SpecSerial   the server with its paraphrase requests one at a time;   *)
(*   SpecDelete   the DELETE and GET requests on the history;              *)
(*   SpecBatch    the batch list of the page and the batch requests;       *)
(*   SpecDiff     computeTextDiff and calculateChangePercentage on pairs   *)
(*                of short strings;                                        *)
(*   SpecLoop     computeTextDiff iteration by iteration, on long          *)
(*                original strings;                                        *)
(*   SpecScores   the scores checkGrammar and checkPlagiarism return.      *)
(*                                                                         *)
(* Time.  `now' is the clock in milliseconds (what toISOString keeps),     *)
(* `today' the local calendar date (what toDateString keeps), counted in   *)
(* days.  Both only move forward.  A store method runs without await, so   *)
(* it is one step; addWordsUsed reads the date twice (its own rollover     *)
(* check and the one of the getUsageStats it ends with) and midnight may   *)
(* fall between the two reads.                                             *)
(***************************************************************************)
EXTENDS Integers, Sequences, FiniteSets, TLC

VARIABLES
  history,         \* MemStorage.history: the Map's values, in insertion order
  wordsUsedToday,  \* MemStorage.wordsUsedToday
  lastResetDate,   \* MemStorage.lastResetDate
  nextId,          \* the next value randomUUID() returns (ids are fresh)
  now,             \* the clock, in milliseconds
  today,           \* the local calendar date, in days
  last,            \* the most recent store call and what it returned
  evicted,         \* history only: items addToHistory evicted since the last clear
  deletedLog,      \* history only: ids for which deleteHistoryItem returned true
  clears,          \* history only: the number of clearHistory calls
  usageLog,        \* history only: the day of the last addWordsUsed, the
                   \* count the last usage call dropped because the date had
                   \* changed, the counter the last resetDailyUsage found
                   \* (-1: none since the last addWordsUsed)
  reqs,            \* the request handlers in flight, one per connection
  resp,            \* the response sent last
  started,         \* the number of requests received so far
  batchTexts,      \* the page: the batch list (home.tsx, useState)
  diff,            \* the page: a text comparison, its inputs and its results
  loop,            \* the page: the locals of a computeTextDiff call that
                   \* runs step by step
  analysis         \* the AI service: a grammar or plagiarism analysis, as
                   \* the model answered it and as the server returns it

vars == <<history, wordsUsedToday, lastResetDate, nextId, now, today, last,
          evicted, deletedLog, clears, usageLog, reqs, resp, started,
          batchTexts, diff, loop, analysis>>

historyVars == <<history, nextId, evicted, deletedLog, clears>>
usageVars   == <<wordsUsedToday, lastResetDate, usageLog>>
clockVars   == <<now, today>>
serverVars  == <<reqs, resp, started>>
pageVars    == <<batchTexts, diff, loop>>
checkVars   == <<analysis>>

-----------------------------------------------------------------------------
(* Program constants *)

DAILY_WORD_LIMIT == 5000

HISTORY_LIMIT == 50

Modes == {"standard", "creative", "formal", "casual"}

-----------------------------------------------------------------------------
(* Bounds of the model *)

\* SpecHistory: addToHistory calls, clock ticks, delete calls that remove,
\* clear calls; and the length of the bursts (see Quiet)
MaxAdds == 52
MaxNow == 1
MaxDeletes == 1
MaxClears == 1
Burst == 1

\* calendar days after the first
MaxDay == 1

\* SpecUsage: the counter addWordsUsed is called up to
MaxWords == 10000

\* SpecDiff: the words of a compared string
MaxDiffWords == 3

\* SpecLoop: the words of the original string
MaxOriginalWords == 6

\* SpecBatch: the entries of the batch list that are not the empty string
MaxTyped == 1

\* SpecStore: addToHistory calls
MaxStored == 3

\* SpecScores: how far below 0 and above 100 the numbers of the model go
ScoreMargin == 2

\* Spec: connections (requests in flight at once), requests received
MaxConns == 2
MaxRequests == 2

-----------------------------------------------------------------------------
(* Sequences *)

Range(s) == {s[i] : i \in 1..Len(s)}

Ids(h) == {h[i].id : i \in 1..Len(h)}

\* Map.delete(id): the entry leaves, the others keep their insertion order
RECURSIVE MapDelete(_, _)
MapDelete(h, id) ==
  IF h = <<>> THEN <<>>
  ELSE IF Head(h).id = id THEN Tail(h)
  ELSE <<Head(h)>> \o MapDelete(Tail(h), id)

\* Array.prototype.sort is stable.  Both comparators of the store subtract
\* the two times: sgn = 1 is (a, b) => t(a) - t(b), oldest first, and
\* sgn = -1 is (a, b) => t(b) - t(a), newest first.  The elements whose
\* time the comparator puts before every other time come first, in the
\* order the array had them (the comparator returns 0 for two of them);
\* the others follow, sorted.
RECURSIVE SortByTime(_, _)
SortByTime(s, sgn) ==
  IF s = <<>> THEN <<>>
  ELSE LET first == CHOOSE t \in {s[i].createdAt : i \in 1..Len(s)} :
                      \A i \in 1..Len(s) : sgn * (t - s[i].createdAt) <= 0
       IN  SelectSeq(s, LAMBDA x : x.createdAt = first)
             \o SortByTime(SelectSeq(s, LAMBDA x : x.createdAt # first), sgn)

-----------------------------------------------------------------------------
(* MemStorage: the history methods *)

\* getHistory(): the values, newest first
getHistory(h) == SortByTime(h, -1)

\* the item addToHistory builds
NewItem(payload, id, t) ==
  [id |-> id, createdAt |-> t, originalText |-> payload.originalText,
   paraphrasedText |-> payload.paraphrasedText, mode |-> payload.mode,
   wordCount |-> payload.wordCount]

\* (mutant) of the entries of the oldest millisecond the one inserted last
\* is removed
Oldest_LastOfTies(h) ==
  LET sorted == SortByTime(h, 1)
  IN  sorted[Len(SelectSeq(h, LAMBDA x : x.createdAt = sorted[1].createdAt))]

\* the entry the eviction step removes: the first of the entries sorted
\* oldest first
Oldest(h) == SortByTime(h, 1)[1]

\* (mutant) the eviction sorts newest first
KeepLast_EvictNewest(h) ==
  IF Len(h) > HISTORY_LIMIT THEN MapDelete(h, SortByTime(h, -1)[1].id) ELSE h

\* "Keep only last 50 items"
KeepLast(h) ==
  IF Len(h) > HISTORY_LIMIT THEN MapDelete(h, Oldest(h).id) ELSE h

\* (mutant) the eviction starts one entry early, at 50
addToHistory_EvictEarly(h, payload, id, t) ==
  LET h1 == Append(h, NewItem(payload, id, t))
  IN  IF Len(h1) >= HISTORY_LIMIT THEN MapDelete(h1, Oldest(h1).id) ELSE h1

\* addToHistory(item): the history after the call
addToHistory(h, payload, id, t) == KeepLast(Append(h, NewItem(payload, id, t)))

\* (mutant) the call reports success whether or not the id was stored
deleteHistoryItem_AlwaysTrue(h, id) ==
  [ret |-> TRUE, history |-> MapDelete(h, id)]

\* deleteHistoryItem(id): Map.delete's return value and the history after it
deleteHistoryItem(h, id) ==
  [ret |-> id \in Ids(h), history |-> MapDelete(h, id)]

\* (mutant) the clear spares the entry inserted last
clearHistory_KeepNewest(h) ==
  IF h = <<>> THEN <<>> ELSE <<h[Len(h)]>>

\* clearHistory()
clearHistory(h) == <<>>

-----------------------------------------------------------------------------
(* MemStorage: the usage methods.  A usage state is the pair of fields.    *)

Usage(w, l) == [wordsUsedToday |-> w, lastResetDate |-> l]

\* (mutant) the rollover moves the date and keeps the counter
checkAndResetDaily_KeepCount(u, d) ==
  IF d # u.lastResetDate THEN Usage(u.wordsUsedToday, d) ELSE u

\* checkAndResetDaily(), with d the date it reads
checkAndResetDaily(u, d) ==
  IF d # u.lastResetDate THEN Usage(0, d) ELSE u

\* (mutant) the stats are read without the rollover check
getUsageStats_NoCheck(u, d) ==
  [usage |-> u,
   ret   |-> [wordsUsedToday |-> u.wordsUsedToday,
              dailyLimit     |-> DAILY_WORD_LIMIT,
              resetTime      |-> d + 1]]

\* getUsageStats(), with d the date it reads: the fields after it and the
\* stats it returns (resetTime: the midnight that ends day d)
getUsageStats(u, d) ==
  LET u1 == checkAndResetDaily(u, d)
  IN  [usage |-> u1,
       ret   |-> [wordsUsedToday |-> u1.wordsUsedToday,
                  dailyLimit     |-> DAILY_WORD_LIMIT,
                  resetTime      |-> d + 1]]

\* (mutant) the counter stops at the daily limit
addWordsUsed_Capped(u, count, d1, d2) ==
  LET u1 == checkAndResetDaily(u, d1)
      w  == u1.wordsUsedToday + count
      u2 == Usage(IF w > DAILY_WORD_LIMIT THEN DAILY_WORD_LIMIT ELSE w,
                  u1.lastResetDate)
  IN  getUsageStats(u2, d2)

\* addWordsUsed(count), with d1 the date its own check reads and d2 the
\* date the getUsageStats it returns reads
addWordsUsed(u, count, d1, d2) ==
  LET u1 == checkAndResetDaily(u, d1)
      u2 == Usage(u1.wordsUsedToday + count, u1.lastResetDate)
  IN  getUsageStats(u2, d2)

\* (mutant) the reset moves the date and leaves the counter
resetDailyUsage_DateOnly(u, d) == Usage(u.wordsUsedToday, d)

\* resetDailyUsage(), with d the date it reads
resetDailyUsage(u, d) == Usage(0, d)

-----------------------------------------------------------------------------
(* Texts.  A text is `lead' blanks, `words' one-letter words separated by  *)
(* single blanks, and `trail' blanks: enough to tell a text's length from  *)
(* its word count, and an empty text from a blank one.                      *)

Text(lead, words, trail) == [lead |-> lead, words |-> words, trail |-> trail]

\* text.length
TextLength(t) ==
  t.lead + t.trail + (IF t.words > 0 THEN 2 * t.words - 1 ELSE 0)

\* text.trim(): the blanks at both ends leave
Trim(t) == Text(0, t.words, 0)

\* countWords(text): text.trim() ? text.trim().split(/\s+/).length : 0
countWords(t) ==
  IF TextLength(Trim(t)) > 0 THEN (TextLength(Trim(t)) + 1) \div 2 ELSE 0

-----------------------------------------------------------------------------
(* The initial state: the constructor of MemStorage, no request received.  *)

NoStats == [wordsUsedToday |-> 0, dailyLimit |-> 0, resetTime |-> 0]

NoText == Text(0, 0, 0)

NoItem ==
  [id |-> 0, createdAt |-> 0, originalText |-> NoText,
   paraphrasedText |-> NoText, mode |-> "none", wordCount |-> 0]

\* a store call: the method, its id or count argument (for clearHistory:
\* the number of entries it found), and what it returned (ok:
\* deleteHistoryItem's boolean; stats: the usage stats; item: addToHistory's
\* item).  What getHistory returns is getHistory(history).
Call(op, arg, ok, stats, item) ==
  [op |-> op, arg |-> arg, ok |-> ok, stats |-> stats, item |-> item]

NoCall == Call("none", 0, TRUE, NoStats, NoItem)

Conns == 1..MaxConns

\* a request handler: the endpoint, the request body, where the handler
\* stands (idle, ai: awaiting the AI calls, counted: the words are added,
\* done: the response is sent), the word count it computed, the texts
\* whose AI call threw, the number of history items it has recorded, and
\* the status it answered.  A response is the handler as it ended, with
\* the usage stats the request read if it answers with them (GET
\* /api/usage, and the 429 with its remaining words and reset time).
Handler(kind, texts, mode, pc, stats, words, failed, recorded, status) ==
  [kind |-> kind, texts |-> texts, mode |-> mode, pc |-> pc, stats |-> stats,
   words |-> words, failed |-> failed, recorded |-> recorded,
   status |-> status]

Idle == Handler("none", <<>>, "none", "idle", NoStats, 0, {}, 0, 0)

\* a comparison of two strings: the inputs, the segments computeTextDiff
\* returned and the percentage calculateChangePercentage returned (pc:
\* none, input: not compared yet, done)
Diff(original, modified, pc, segments, percentage) ==
  [original |-> original, modified |-> modified, pc |-> pc,
   segments |-> segments, percentage |-> percentage]

NoDiff ==
  Diff([lead |-> FALSE, words |-> <<>>, trail |-> FALSE],
       [lead |-> FALSE, words |-> <<>>, trail |-> FALSE], "none", <<>>, 0)

\* the locals of computeTextDiff: the position j in modifiedWords, the
\* cursor i in originalWords, the segments pushed, the segment being built
\* and its type; and of the iteration before: the index found (-1: none),
\* and the indices found so far (pc: none, loop, done)
Loop(pc, j, i, segments, currentSegment, currentType, found, matched) ==
  [pc |-> pc, j |-> j, i |-> i, segments |-> segments,
   currentSegment |-> currentSegment, currentType |-> currentType,
   found |-> found, matched |-> matched]

NoLoop ==
  Loop("none", 0, 0, <<>>, [lead |-> FALSE, words |-> <<>>, trail |-> FALSE],
       "unchanged", -1, <<>>)

\* a number of the JSON the model answered: the field may be missing
Raw(present, value) == [present |-> present, value |-> value]

\* an analysis: the function that returns it, the numbers the model
\* answered and the numbers the function returns (pc: none, raw, done)
Analysis(kind, pc, raw, ret) == [kind |-> kind, pc |-> pc, raw |-> raw, ret |-> ret]

NoAnalysis == Analysis("none", "none", <<>>, <<>>)

\* the store and the page as constructed, no request received
InitServer ==
  /\ history = <<>>
  /\ wordsUsedToday = 0
  /\ lastResetDate = 0
  /\ nextId = 1
  /\ now = 0
  /\ today = 0
  /\ last = NoCall
  /\ evicted = {}
  /\ deletedLog = <<>>
  /\ clears = 0
  /\ usageLog = [addDay |-> -1, dropped |-> 0, resetFound |-> -1]
  /\ reqs = [c \in Conns |-> Idle]
  /\ resp = Idle
  /\ started = 0
  /\ batchTexts = <<NoText>>

Init == InitServer /\ diff = NoDiff /\ loop = NoLoop /\ analysis = NoAnalysis

-----------------------------------------------------------------------------
(* The clock *)

\* a millisecond passes
Tick ==
  /\ now < MaxNow
  /\ now' = now + 1
  /\ UNCHANGED <<today, last, historyVars, usageVars, serverVars>>
  /\ UNCHANGED <<pageVars, checkVars>>

\* local midnight passes
Midnight ==
  /\ today < MaxDay
  /\ today' = today + 1
  /\ now' = now + 1
  /\ UNCHANGED <<last, historyVars, usageVars, serverVars>>
  /\ UNCHANGED <<pageVars, checkVars>>

-----------------------------------------------------------------------------
(* Calls of the history methods *)

CallAddToHistory(payload) ==
  LET item == NewItem(payload, nextId, now)
      h    == addToHistory(history, payload, nextId, now)
  IN  /\ history' = h
      /\ nextId' = nextId + 1
      /\ evicted' = evicted \cup (Range(Append(history, item)) \ Range(h))
      /\ last' = Call("addToHistory", 0, TRUE, NoStats, item)
      /\ UNCHANGED <<deletedLog, clears>>

CallDeleteHistoryItem(id) ==
  LET r == deleteHistoryItem(history, id)
  IN  /\ history' = r.history
      /\ deletedLog' = IF r.ret THEN Append(deletedLog, id) ELSE deletedLog
      /\ last' = Call("deleteHistoryItem", id, r.ret, NoStats, NoItem)
      /\ UNCHANGED <<nextId, evicted, clears>>

CallGetHistory ==
  /\ last' = Call("getHistory", 0, TRUE, NoStats, NoItem)
  /\ UNCHANGED historyVars

CallClearHistory ==
  /\ history' = clearHistory(history)
  /\ evicted' = {}
  /\ clears' = clears + 1
  /\ last' = Call("clearHistory", Len(history), TRUE, NoStats, NoItem)
  /\ UNCHANGED <<nextId, deletedLog>>

\* the payload of the items SpecHistory records
StorePayload ==
  [originalText |-> Text(0, 1, 0), paraphrasedText |-> Text(0, 1, 0),
   mode |-> "standard", wordCount |-> 1]

\* the ids SpecHistory passes to deleteHistoryItem: one never issued, the
\* first issued, the oldest and the newest stored
DeleteTargets ==
  {0, 1} \cup
  (IF history = <<>> THEN {} ELSE {history[1].id, history[Len(history)].id})

\* SpecHistory fills the history from Burst items to Burst items below the
\* limit with back-to-back addToHistory calls alone: the clock ticks and
\* the delete and clear calls come while the history is nearly empty or
\* nearly full
Quiet == Burst < Len(history) /\ Len(history) < HISTORY_LIMIT - Burst

AddToHistory ==
  /\ nextId <= MaxAdds
  /\ CallAddToHistory(StorePayload)
  /\ UNCHANGED <<clockVars, usageVars, serverVars>>
  /\ UNCHANGED <<pageVars, checkVars>>

DeleteHistoryItem(id) ==
  /\ ~Quiet
  /\ id \in Ids(history) => Len(deletedLog) < MaxDeletes
  /\ CallDeleteHistoryItem(id)
  /\ UNCHANGED <<clockVars, usageVars, serverVars>>
  /\ UNCHANGED <<pageVars, checkVars>>

ClearHistory ==
  /\ ~Quiet
  /\ clears < MaxClears
  /\ CallClearHistory
  /\ UNCHANGED <<clockVars, usageVars, serverVars>>
  /\ UNCHANGED <<pageVars, checkVars>>

NextHistory ==
  \/ AddToHistory
  \/ \E id \in DeleteTargets : DeleteHistoryItem(id)
  \/ ClearHistory
  \/ ~Quiet /\ Tick

SpecHistory == Init /\ [][NextHistory]_vars

-----------------------------------------------------------------------------
(* Calls of the usage methods *)

Fields == Usage(wordsUsedToday, lastResetDate)

\* the count a rollover at the current date drops
Dropped == IF today # lastResetDate THEN wordsUsedToday ELSE 0

CallGetUsageStats ==
  LET r == getUsageStats(Fields, today)
  IN  /\ wordsUsedToday' = r.usage.wordsUsedToday
      /\ lastResetDate' = r.usage.lastResetDate
      /\ last' = Call("getUsageStats", 0, TRUE, r.ret, NoItem)
      /\ usageLog' = [usageLog EXCEPT !.dropped = Dropped]

\* the dates the second read of a call may see: today, or tomorrow when
\* midnight falls inside the call
LaterDates == {today} \cup (IF today < MaxDay THEN {today + 1} ELSE {})

\* addWordsUsed(count), its second read seeing date d2
CallAddWordsUsed(count, d2) ==
  LET r == addWordsUsed(Fields, count, today, d2)
  IN  /\ wordsUsedToday' = r.usage.wordsUsedToday
      /\ lastResetDate' = r.usage.lastResetDate
      /\ today' = d2
      /\ now' = now + (d2 - today)
      /\ last' = Call("addWordsUsed", count, TRUE, r.ret, NoItem)
      /\ usageLog' = [addDay |-> d2, dropped |-> Dropped, resetFound |-> -1]

CallResetDailyUsage ==
  LET u == resetDailyUsage(Fields, today)
  IN  /\ wordsUsedToday' = u.wordsUsedToday
      /\ lastResetDate' = u.lastResetDate
      /\ last' = Call("resetDailyUsage", 0, TRUE, NoStats, NoItem)
      /\ usageLog' = [usageLog EXCEPT !.dropped = 0,
                                      !.resetFound = wordsUsedToday]

\* the counts SpecUsage passes to addWordsUsed
Counts == {0, DAILY_WORD_LIMIT \div 2, DAILY_WORD_LIMIT}

GetUsageStats ==
  /\ CallGetUsageStats
  /\ UNCHANGED <<clockVars, historyVars, serverVars>>
  /\ UNCHANGED <<pageVars, checkVars>>

AddWordsUsed(count, d2) ==
  /\ wordsUsedToday + count <= MaxWords
  /\ CallAddWordsUsed(count, d2)
  /\ UNCHANGED <<historyVars, serverVars>>
  /\ UNCHANGED <<pageVars, checkVars>>

\* (mutant) the reset empties the history as well
ResetDailyUsage_ClearsHistory ==
  /\ CallResetDailyUsage
  /\ history' = <<>>
  /\ UNCHANGED <<nextId, evicted, deletedLog, clears>>
  /\ UNCHANGED <<clockVars, serverVars>>
  /\ UNCHANGED <<pageVars, checkVars>>

ResetDailyUsage ==
  /\ CallResetDailyUsage
  /\ UNCHANGED <<clockVars, historyVars, serverVars>>
  /\ UNCHANGED <<pageVars, checkVars>>

NextUsage ==
  \/ GetUsageStats
  \/ \E count \in Counts, d2 \in LaterDates : AddWordsUsed(count, d2)
  \/ ResetDailyUsage
  \/ Midnight

SpecUsage == Init /\ [][NextUsage]_vars

-----------------------------------------------------------------------------
(* The store as a whole: any sequence of calls of the seven methods of     *)
(* MemStorage on a history of a few items: SpecStore.                      *)

StoreAdd ==
  /\ nextId <= MaxStored
  /\ AddToHistory

StoreList ==
  /\ CallGetHistory
  /\ UNCHANGED <<clockVars, usageVars, serverVars>>
  /\ UNCHANGED <<pageVars, checkVars>>

StoreDelete(id) ==
  /\ id \in Ids(history) => Len(deletedLog) < MaxDeletes
  /\ CallDeleteHistoryItem(id)
  /\ UNCHANGED <<clockVars, usageVars, serverVars>>
  /\ UNCHANGED <<pageVars, checkVars>>

StoreClear ==
  /\ clears < MaxClears
  /\ CallClearHistory
  /\ UNCHANGED <<clockVars, usageVars, serverVars>>
  /\ UNCHANGED <<pageVars, checkVars>>

\* addWordsUsed(5000), no midnight inside the call
StoreAddWords == AddWordsUsed(DAILY_WORD_LIMIT, today)

NextStore ==
  \/ StoreAdd
  \/ StoreList
  \/ \E id \in 0..MaxStored : StoreDelete(id)
  \/ StoreClear
  \/ GetUsageStats
  \/ StoreAddWords
  \/ ResetDailyUsage
  \/ Midnight

SpecStore == Init /\ [][NextStore]_vars

-----------------------------------------------------------------------------
(* The request schemas (shared/schema.ts) *)

MIN_TEXT == 1

MAX_TEXT == 10000

MIN_BATCH == 1

MAX_BATCH == 10

\* z.string().min(1).max(10000)
ValidText(t) == MIN_TEXT <= TextLength(t) /\ TextLength(t) <= MAX_TEXT

\* paraphraseRequestSchema.safeParse(body).success
ValidParaphrase(text, mode) == ValidText(text) /\ mode \in Modes

\* (mutant) the texts array has no upper limit
ValidBatch_NoMax(texts, mode) ==
  /\ MIN_BATCH <= Len(texts)
  /\ \A i \in 1..Len(texts) : ValidText(texts[i])
  /\ mode \in Modes

\* batchParaphraseRequestSchema.safeParse(body).success
ValidBatch(texts, mode) ==
  /\ MIN_BATCH <= Len(texts) /\ Len(texts) <= MAX_BATCH
  /\ \A i \in 1..Len(texts) : ValidText(texts[i])
  /\ mode \in Modes

\* texts.reduce((sum, t) => sum + countWords(t), 0)
RECURSIVE TotalWords(_)
TotalWords(texts) ==
  IF texts = <<>> THEN 0
  ELSE TotalWords(SubSeq(texts, 1, Len(texts) - 1)) + countWords(texts[Len(texts)])

\* (mutant) the request's own words alone are compared to the limit
OverLimit_OwnWords(stats, words) == words > stats.dailyLimit

\* (mutant) a total equal to the limit is over the limit
OverLimit_AtLeast(stats, words) ==
  stats.wordsUsedToday + words >= stats.dailyLimit

\* usageStats.wordsUsedToday + wordCount > usageStats.dailyLimit
OverLimit(stats, words) == stats.wordsUsedToday + words > stats.dailyLimit

-----------------------------------------------------------------------------
(* The requests the model sends *)

OneWord == Text(0, 1, 0)

Blank == Text(1, 0, 0)

\* 4999 words and a trailing blank
AlmostLimit == Text(0, DAILY_WORD_LIMIT - 1, 1)

\* 5000 words
AtLimit == Text(0, DAILY_WORD_LIMIT, 0)

\* the bodies sent to POST /api/paraphrase: the empty text, a mode outside
\* the enumeration, a blank, one word, 5000 words
ParaphraseBodies ==
  {<<"paraphrase", <<Text(0, 0, 0)>>, "standard">>,
   <<"paraphrase", <<OneWord>>, "poetic">>,
   <<"paraphrase", <<Blank>>, "casual">>,
   <<"paraphrase", <<OneWord>>, "standard">>,
   <<"paraphrase", <<AtLimit>>, "creative">>}

\* the bodies sent to POST /api/paraphrase/batch: no text, eleven texts, an
\* empty text among the texts, two words, 5000 words, 5001 words
BatchBodies ==
  {<<"batch", <<>>, "standard">>,
   <<"batch", [i \in 1..(MAX_BATCH + 1) |-> OneWord], "standard">>,
   <<"batch", <<OneWord, Text(0, 0, 0)>>, "standard">>,
   <<"batch", <<OneWord, OneWord>>, "casual">>,
   <<"batch", <<OneWord, AlmostLimit>>, "standard">>,
   <<"batch", <<AlmostLimit, OneWord, OneWord>>, "formal">>}

Bodies == ParaphraseBodies \cup BatchBodies

\* what the AI answers when it answers
AiText == Text(0, 2, 0)

-----------------------------------------------------------------------------
(* The handlers of routes.ts.  A handler runs from one await to the next   *)
(* in one step.  The storage methods await nothing, so the handler that    *)
(* awaits one of them goes on before the event loop takes the next request *)
(* or the next AI answer; while the AI calls are pending the handlers of   *)
(* the other connections run.                                              *)

Busy(c) == reqs[c].pc # "idle"

\* no handler is between addWordsUsed and its response
Settled == \A c \in Conns : reqs[c].pc # "counted"

\* a request arrives on connection c (connections are interchangeable: the
\* first one that is not busy takes it)
Free(c) ==
  /\ started < MaxRequests
  /\ Settled
  /\ ~Busy(c)
  /\ \A c2 \in 1..(c - 1) : Busy(c2)

\* the handler of connection c moves on
Goto(c, h) == reqs' = [reqs EXCEPT ![c] = h] /\ UNCHANGED resp

\* the handler of connection c answers and ends
Reply(c, h) ==
  /\ resp' = [h EXCEPT !.pc = "done", !.texts = <<>>, !.mode = "none"]
  /\ reqs' = [reqs EXCEPT ![c] = Idle]

\* POST /api/paraphrase, POST /api/paraphrase/batch: the body fails the
\* schema, 400
Reject(c, kind, texts, mode) ==
  /\ Free(c)
  /\ IF kind = "paraphrase" THEN Len(texts) = 1 /\ ~ValidParaphrase(texts[1], mode)
                            ELSE ~ValidBatch(texts, mode)
  /\ Reply(c, Handler(kind, texts, mode, "done", NoStats, 0, {}, 0, 400))
  /\ started' = started + 1
  /\ UNCHANGED <<last, clockVars, historyVars, usageVars>>
  /\ UNCHANGED <<pageVars, checkVars>>

\* POST /api/paraphrase, POST /api/paraphrase/batch with a valid body: the
\* words are counted, the usage stats read, and the request is answered
\* 429 or the AI calls are started
Start(c, kind, texts, mode) ==
  /\ Free(c)
  /\ IF kind = "paraphrase" THEN Len(texts) = 1 /\ ValidParaphrase(texts[1], mode)
                            ELSE ValidBatch(texts, mode)
  /\ CallGetUsageStats
  /\ LET words == TotalWords(texts)
         stats == last'.stats
     IN  IF OverLimit(stats, words)
         THEN Reply(c, Handler(kind, texts, mode, "done", stats, words, {}, 0, 429))
         ELSE Goto(c, Handler(kind, texts, mode, "ai", NoStats, words, {}, 0, 0))
  /\ started' = started + 1
  /\ UNCHANGED <<clockVars, historyVars>>
  /\ UNCHANGED <<pageVars, checkVars>>

\* (mutant) the words of the request are counted before the 500
AiThrows_CountsWords(c, failed) ==
  /\ reqs[c].pc = "ai"
  /\ Settled
  /\ failed # {} /\ failed \subseteq 1..Len(reqs[c].texts)
  /\ CallAddWordsUsed(reqs[c].words, today)
  /\ Reply(c, [reqs[c] EXCEPT !.pc = "done", !.failed = failed, !.status = 500])
  /\ UNCHANGED <<started, historyVars>>
  /\ UNCHANGED <<pageVars, checkVars>>

\* an AI call of the request throws (for a batch: Promise.all rejects, the
\* calls in `failed' having thrown): 500
AiThrows(c, failed) ==
  /\ reqs[c].pc = "ai"
  /\ Settled
  /\ failed # {} /\ failed \subseteq 1..Len(reqs[c].texts)
  /\ Reply(c, [reqs[c] EXCEPT !.pc = "done", !.failed = failed, !.status = 500])
  /\ UNCHANGED <<started, last, clockVars, historyVars, usageVars>>
  /\ UNCHANGED <<pageVars, checkVars>>

\* (mutant) the words of the paraphrased text are counted
AiAnswers_CountsAnswer(c, d2) ==
  /\ reqs[c].pc = "ai"
  /\ Settled
  /\ CallAddWordsUsed(countWords(AiText) * Len(reqs[c].texts), d2)
  /\ Goto(c, [reqs[c] EXCEPT !.pc = "counted"])
  /\ UNCHANGED <<started, historyVars>>
  /\ UNCHANGED <<pageVars, checkVars>>

\* every AI call of the request has answered: addWordsUsed(wordCount)
AiAnswers(c, d2) ==
  /\ reqs[c].pc = "ai"
  /\ Settled
  /\ CallAddWordsUsed(reqs[c].words, d2)
  /\ Goto(c, [reqs[c] EXCEPT !.pc = "counted"])
  /\ UNCHANGED <<started, historyVars>>
  /\ UNCHANGED <<pageVars, checkVars>>

\* (mutant) every item of a batch carries the batch's total word count
Payload_TotalWords(h, i) ==
  [originalText |-> h.texts[i], paraphrasedText |-> AiText, mode |-> h.mode,
   wordCount |-> h.words]

\* the item the handler records for its i-th text
Payload(h, i) ==
  [originalText |-> h.texts[i], paraphrasedText |-> AiText, mode |-> h.mode,
   wordCount |-> countWords(h.texts[i])]

\* addToHistory of the next text; after the last one the response, 200
Record(c) ==
  /\ reqs[c].pc = "counted"
  /\ CallAddToHistory(Payload(reqs[c], reqs[c].recorded + 1))
  /\ IF reqs[c].recorded + 1 = Len(reqs[c].texts)
     THEN Reply(c, [reqs[c] EXCEPT !.recorded = @ + 1, !.status = 200])
     ELSE Goto(c, [reqs[c] EXCEPT !.recorded = @ + 1])
  /\ UNCHANGED <<started, clockVars, usageVars>>
  /\ UNCHANGED <<pageVars, checkVars>>

\* GET /api/usage
GetUsage(c) ==
  /\ Free(c)
  /\ CallGetUsageStats
  /\ Reply(c, Handler("usage", <<>>, "none", "done", last'.stats, 0, {}, 0, 200))
  /\ started' = started + 1
  /\ UNCHANGED <<clockVars, historyVars>>
  /\ UNCHANGED <<pageVars, checkVars>>

\* GET /api/history
GetHistory(c) ==
  /\ Free(c)
  /\ CallGetHistory
  /\ Reply(c, Handler("history", <<>>, "none", "done", NoStats, 0, {}, 0, 200))
  /\ started' = started + 1
  /\ UNCHANGED <<clockVars, usageVars>>
  /\ UNCHANGED <<pageVars, checkVars>>

\* (mutant) the handler answers success whatever deleteHistoryItem returned
DeleteItem_AlwaysSuccess(c, id) ==
  /\ Free(c)
  /\ CallDeleteHistoryItem(id)
  /\ Reply(c, Handler("delete", <<>>, "none", "done", NoStats, 0, {}, 0, 200))
  /\ started' = started + 1
  /\ UNCHANGED <<clockVars, usageVars>>
  /\ UNCHANGED <<pageVars, checkVars>>

\* DELETE /api/history/:id
DeleteItem(c, id) ==
  /\ Free(c)
  /\ CallDeleteHistoryItem(id)
  /\ Reply(c, Handler("delete", <<>>, "none", "done", NoStats, 0, {}, 0,
                      IF last'.ok THEN 200 ELSE 404))
  /\ started' = started + 1
  /\ UNCHANGED <<clockVars, usageVars>>
  /\ UNCHANGED <<pageVars, checkVars>>

\* DELETE /api/history
ClearAll(c) ==
  /\ Free(c)
  /\ CallClearHistory
  /\ Reply(c, Handler("clear", <<>>, "none", "done", NoStats, 0, {}, 0, 200))
  /\ started' = started + 1
  /\ UNCHANGED <<clockVars, usageVars>>
  /\ UNCHANGED <<pageVars, checkVars>>

Next ==
  \/ \E c \in Conns, b \in Bodies : Reject(c, b[1], b[2], b[3])
  \/ \E c \in Conns, b \in Bodies : Start(c, b[1], b[2], b[3])
  \/ \E c \in Conns : \E failed \in SUBSET (1..Len(reqs[c].texts)) :
       AiThrows(c, failed)
  \/ \E c \in Conns, d2 \in LaterDates : AiAnswers(c, d2)
  \/ \E c \in Conns : Record(c)
  \/ \E c \in Conns : GetUsage(c)
  \/ \E c \in Conns : GetHistory(c)
  \/ \E c \in Conns, id \in 0..nextId : DeleteItem(c, id)
  \/ \E c \in Conns : ClearAll(c)
  \/ Tick
  \/ Midnight

Spec == Init /\ [][Next]_vars

\* no request handler is in flight
Quiescent == \A c \in Conns : ~Busy(c)

\* The server when the paraphrase and batch requests are handled strictly
\* one after another: such a request begins only when no handler is in
\* flight
NextSerial ==
  \/ \E c \in Conns, b \in Bodies : Reject(c, b[1], b[2], b[3])
  \/ \E c \in Conns, b \in Bodies : Quiescent /\ Start(c, b[1], b[2], b[3])
  \/ \E c \in Conns : \E failed \in SUBSET (1..Len(reqs[c].texts)) :
       AiThrows(c, failed)
  \/ \E c \in Conns, d2 \in LaterDates : AiAnswers(c, d2)
  \/ \E c \in Conns : Record(c)
  \/ \E c \in Conns : GetUsage(c)
  \/ \E c \in Conns : GetHistory(c)
  \/ \E c \in Conns, id \in 0..nextId : DeleteItem(c, id)
  \/ \E c \in Conns : ClearAll(c)
  \/ Tick
  \/ Midnight

SpecSerial == Init /\ [][NextSerial]_vars

-----------------------------------------------------------------------------
(* DELETE /api/history/:id and GET /api/history on a history of a few      *)
(* items, recorded before the requests or between them: SpecDelete.        *)

NextDelete ==
  \/ StoreAdd
  \/ \E c \in Conns, id \in 0..nextId : DeleteItem(c, id)
  \/ \E c \in Conns : GetHistory(c)
  \/ Tick

SpecDelete == Init /\ [][NextDelete]_vars

-----------------------------------------------------------------------------
(* The text diff (computeTextDiff, calculateChangePercentage): SpecDiff.   *)
(* A string is its words, in order, and whether white space leads and      *)
(* trails it; a run of white space between two words counts as one blank   *)
(* (split(/\s+/) does not tell them apart).  A word is "a", "A" or "b"; "" *)
(* is the empty word split returns for white space at an end.              *)

Words == {"a", "A", "b"}

Str(lead, words, trail) == [lead |-> lead, words |-> words, trail |-> trail]

\* the empty string, the only string for which !s holds
Empty == Str(FALSE, <<>>, FALSE)

\* a string of white space only
BlankStr == Str(TRUE, <<>>, FALSE)

\* the string that is the word w
WordStr(w) == IF w = "" THEN Empty ELSE Str(FALSE, <<w>>, FALSE)

\* s.split(/\s+/)
Split(s) ==
  IF s.words = <<>>
  THEN IF s.lead THEN <<"", "">> ELSE <<"">>
  ELSE (IF s.lead THEN <<"">> ELSE <<>>) \o s.words
         \o (IF s.trail THEN <<"">> ELSE <<>>)

\* s.trim()
TrimStr(s) == Str(FALSE, s.words, FALSE)

\* w.toLowerCase()
Lower(w) == IF w = "A" THEN "a" ELSE w

\* (mutant) the word replaces the segment built so far
Concat_Overwrites(seg, w) == WordStr(w)

\* currentSegment + (currentSegment ? ' ' : '') + modWord
Concat(seg, w) ==
  IF seg = Empty THEN WordStr(w)
  ELSE IF w = "" THEN Str(seg.lead, seg.words, TRUE)
  ELSE Str(seg.lead, Append(seg.words, w), FALSE)

LOOKAHEAD == 5

Min(x, y) == IF x < y THEN x ELSE y

\* (mutant) the search starts one word after the current position
FindWord_SkipsCurrent(originalWords, i, modWord) ==
  LET ks == {k \in (i + 1)..(Min(i + LOOKAHEAD, Len(originalWords)) - 1) :
               Lower(originalWords[k + 1]) = Lower(modWord)}
  IN  IF ks = {} THEN -1 ELSE CHOOSE k \in ks : \A k2 \in ks : k <= k2

\* (mutant) the search goes on to the end of the original words
FindWord_NoWindow(originalWords, i, modWord) ==
  LET ks == {k \in i..(Len(originalWords) - 1) :
               Lower(originalWords[k + 1]) = Lower(modWord)}
  IN  IF ks = {} THEN -1 ELSE CHOOSE k \in ks : \A k2 \in ks : k <= k2

\* the for loop: the first k in i .. min(i + 5, length) - 1 whose word
\* equals modWord in lower case, or -1 (found = false); indices from 0
FindWord(originalWords, i, modWord) ==
  LET ks == {k \in i..(Min(i + LOOKAHEAD, Len(originalWords)) - 1) :
               Lower(originalWords[k + 1]) = Lower(modWord)}
  IN  IF ks = {} THEN -1 ELSE CHOOSE k \in ks : \A k2 \in ks : k <= k2

Segment(text, type) == [text |-> text, type |-> type]

\* (mutant) the segment is pushed whether or not it is empty
Push_Unguarded(segments, currentSegment, currentType) ==
  Append(segments, Segment(currentSegment, currentType))

\* if (currentSegment) segments.push({text: currentSegment, type: currentType})
Push(segments, currentSegment, currentType) ==
  IF currentSegment # Empty
  THEN Append(segments, Segment(currentSegment, currentType))
  ELSE segments

\* the while loop from j on, and the push after it
RECURSIVE DiffLoop(_, _, _, _, _, _, _)
DiffLoop(originalWords, modifiedWords, j, i, segments, currentSegment, currentType) ==
  IF j >= Len(modifiedWords) THEN Push(segments, currentSegment, currentType)
  ELSE LET modWord  == modifiedWords[j + 1]
           k        == FindWord(originalWords, i, modWord)
           i2       == IF k >= 0 THEN k + 1 ELSE i
           wordType == IF k >= 0 THEN "unchanged" ELSE "changed"
       IN  IF wordType = currentType
           THEN DiffLoop(originalWords, modifiedWords, j + 1, i2, segments,
                         Concat(currentSegment, modWord), currentType)
           ELSE DiffLoop(originalWords, modifiedWords, j + 1, i2,
                         Push(segments, currentSegment, currentType),
                         WordStr(modWord), wordType)

\* (mutant) an empty input gives no segment
computeTextDiff_EmptyGivesNone(original, modified) ==
  IF original = Empty \/ modified = Empty THEN <<>>
  ELSE DiffLoop(Split(original), Split(modified), 0, 0, <<>>, Empty,
                "unchanged")

computeTextDiff(original, modified) ==
  IF original = Empty \/ modified = Empty
  THEN <<Segment(modified, "unchanged")>>
  ELSE DiffLoop(Split(original), Split(modified), 0, 0, <<>>, Empty,
                "unchanged")

\* Math.round(n / d) for n >= 0, d > 0: halves go up
Round(n, d) == (2 * n + d) \div (2 * d)

\* segments.filter(s => s.type === 'changed')
\*   .reduce((acc, s) => acc + s.text.split(/\s+/).length, 0)
RECURSIVE ChangedWords(_)
ChangedWords(segments) ==
  IF segments = <<>> THEN 0
  ELSE ChangedWords(SubSeq(segments, 1, Len(segments) - 1))
         + (IF segments[Len(segments)].type = "changed"
            THEN Len(Split(segments[Len(segments)].text)) ELSE 0)

calculateChangePercentage(original, modified) ==
  IF original = Empty \/ modified = Empty THEN 0
  ELSE LET changedWords == ChangedWords(computeTextDiff(original, modified))
           totalWords   == Len(Split(TrimStr(modified)))
       IN  IF totalWords > 0 THEN Round(changedWords * 100, totalWords) ELSE 0

\* the sequences of at most n words
WordSeqs(n) == UNION {[1..m -> Words] : m \in 0..n}

\* the strings compared: the empty one, the blank one, and the strings of
\* one to MaxDiffWords words, with or without white space at either end
Strings ==
  {Empty, BlankStr} \cup
  {Str(lead, ws, trail) :
     lead \in BOOLEAN, trail \in BOOLEAN, ws \in WordSeqs(MaxDiffWords) \ {<<>>}}

InitDiff ==
  /\ InitServer
  /\ loop = NoLoop
  /\ analysis = NoAnalysis
  /\ \E original \in Strings, modified \in Strings :
       diff = Diff(original, modified, "input", <<>>, 0)

\* the page compares the two strings
Compare ==
  /\ diff.pc = "input"
  /\ diff' = Diff(diff.original, diff.modified, "done",
                  computeTextDiff(diff.original, diff.modified),
                  calculateChangePercentage(diff.original, diff.modified))
  /\ UNCHANGED <<batchTexts, loop, checkVars, last, clockVars, historyVars,
                 usageVars, serverVars>>

NextDiff == Compare

SpecDiff == InitDiff /\ [][NextDiff]_vars

-----------------------------------------------------------------------------
(* computeTextDiff step by step, one iteration of the while loop at a      *)
(* time, with original strings long enough for the window of 5 words to    *)
(* end before the string does: SpecLoop.                                   *)

\* (mutant) the cursor is set to the index found, not past it
Iteration_CursorAtMatch(originalWords, modifiedWords, l) ==
  LET modWord  == modifiedWords[l.j + 1]
      k        == FindWord(originalWords, l.i, modWord)
      i2       == IF k >= 0 THEN k ELSE l.i
      wordType == IF k >= 0 THEN "unchanged" ELSE "changed"
      matched  == IF k >= 0 THEN Append(l.matched, k) ELSE l.matched
  IN  IF wordType = l.currentType
      THEN Loop("loop", l.j + 1, i2, l.segments,
                Concat(l.currentSegment, modWord), l.currentType, k, matched)
      ELSE Loop("loop", l.j + 1, i2,
                Push(l.segments, l.currentSegment, l.currentType),
                WordStr(modWord), wordType, k, matched)

\* (mutant) every word starts a segment of its own
Iteration_NoMerge(originalWords, modifiedWords, l) ==
  LET modWord  == modifiedWords[l.j + 1]
      k        == FindWord(originalWords, l.i, modWord)
      i2       == IF k >= 0 THEN k + 1 ELSE l.i
      wordType == IF k >= 0 THEN "unchanged" ELSE "changed"
      matched  == IF k >= 0 THEN Append(l.matched, k) ELSE l.matched
  IN  Loop("loop", l.j + 1, i2,
           Push(l.segments, l.currentSegment, l.currentType),
           WordStr(modWord), wordType, k, matched)

\* the body of the while loop, on the locals l
Iteration(originalWords, modifiedWords, l) ==
  LET modWord  == modifiedWords[l.j + 1]
      k        == FindWord(originalWords, l.i, modWord)
      i2       == IF k >= 0 THEN k + 1 ELSE l.i
      wordType == IF k >= 0 THEN "unchanged" ELSE "changed"
      matched  == IF k >= 0 THEN Append(l.matched, k) ELSE l.matched
  IN  IF wordType = l.currentType
      THEN Loop("loop", l.j + 1, i2, l.segments,
                Concat(l.currentSegment, modWord), l.currentType, k, matched)
      ELSE Loop("loop", l.j + 1, i2,
                Push(l.segments, l.currentSegment, l.currentType),
                WordStr(modWord), wordType, k, matched)

\* the words of the long original strings
LoopWords == {"a", "b"}

\* the original strings of SpecLoop: the empty one, the blank one, and the
\* strings of one to MaxOriginalWords words
Originals ==
  {Empty, BlankStr} \cup
  {Str(lead, ws, trail) :
     lead \in BOOLEAN, trail \in BOOLEAN,
     ws \in UNION {[1..m -> LoopWords] : m \in 1..MaxOriginalWords}}

InitLoop ==
  /\ InitServer
  /\ loop = NoLoop
  /\ analysis = NoAnalysis
  /\ \E original \in Originals, modified \in Strings :
       diff = Diff(original, modified, "input", <<>>, 0)

\* computeTextDiff is called: it returns at once for an empty input, and
\* splits the strings and sets its locals otherwise
EnterLoop ==
  /\ diff.pc = "input"
  /\ IF diff.original = Empty \/ diff.modified = Empty
     THEN /\ diff' = Diff(diff.original, diff.modified, "done",
                          <<Segment(diff.modified, "unchanged")>>,
                          calculateChangePercentage(diff.original,
                                                    diff.modified))
          /\ loop' = loop
     ELSE /\ diff' = [diff EXCEPT !.pc = "loop"]
          /\ loop' = Loop("loop", 0, 0, <<>>, Empty, "unchanged", -1, <<>>)
  /\ UNCHANGED <<batchTexts, checkVars, last, clockVars, historyVars,
                 usageVars, serverVars>>

\* one iteration of the while loop
Iterate ==
  /\ loop.pc = "loop"
  /\ loop.j < Len(Split(diff.modified))
  /\ loop' = Iteration(Split(diff.original), Split(diff.modified), loop)
  /\ UNCHANGED <<diff, batchTexts, checkVars, last, clockVars, historyVars,
                 usageVars, serverVars>>

\* the loop ends: the last segment is pushed and the segments returned
ExitLoop ==
  /\ loop.pc = "loop"
  /\ loop.j >= Len(Split(diff.modified))
  /\ loop' = [loop EXCEPT !.pc = "done",
                          !.segments = Push(loop.segments, loop.currentSegment,
                                            loop.currentType)]
  /\ diff' = Diff(diff.original, diff.modified, "done", loop'.segments,
                  calculateChangePercentage(diff.original, diff.modified))
  /\ UNCHANGED <<batchTexts, checkVars, last, clockVars, historyVars,
                 usageVars, serverVars>>

NextLoop == EnterLoop \/ Iterate \/ ExitLoop

SpecLoop == InitLoop /\ [][NextLoop]_vars

-----------------------------------------------------------------------------
(* The batch list of the page (home.tsx) and the batch requests it and     *)
(* other clients send: SpecBatch.  The server side is the admission of a   *)
(* batch request: the validation, the usage check, and the AI calls, which *)
(* all start at once and of which the first throws.                        *)

BATCH_LIST_MAX == 10

\* addBatchText()
addBatchText(l) == IF Len(l) < BATCH_LIST_MAX THEN Append(l, NoText) ELSE l

\* removeBatchText(index): batchTexts.filter((_, i) => i !== index)
removeBatchText(l, index) ==
  SubSeq(l, 1, index) \o SubSeq(l, index + 2, Len(l))

\* updateBatchText(index, value), index being the index of a rendered entry
updateBatchText(l, index, value) == [l EXCEPT ![index + 1] = value]

\* handleBatchParaphrase: batchTexts.filter(t => t.trim())
validTexts(l) == SelectSeq(l, LAMBDA t : TextLength(Trim(t)) > 0)

\* the entries of the list that are not the empty string
Typed(l) == Cardinality({i \in 1..Len(l) : l[i] # NoText})

AddBatchText ==
  /\ batchTexts' = addBatchText(batchTexts)
  /\ UNCHANGED <<diff, loop, checkVars, last, clockVars, historyVars, usageVars,
                 serverVars>>

\* the remove button is rendered while the list has more than one entry
RemoveBatchText(index) ==
  /\ Len(batchTexts) > 1
  /\ batchTexts' = removeBatchText(batchTexts, index)
  /\ UNCHANGED <<diff, loop, checkVars, last, clockVars, historyVars, usageVars,
                 serverVars>>

UpdateBatchText(index, value) ==
  /\ Typed(updateBatchText(batchTexts, index, value)) <= MaxTyped
  /\ batchTexts' = updateBatchText(batchTexts, index, value)
  /\ UNCHANGED <<diff, loop, checkVars, last, clockVars, historyVars, usageVars,
                 serverVars>>

\* the Clear All button
ClearBatch ==
  /\ batchTexts' = <<NoText>>
  /\ UNCHANGED <<diff, loop, checkVars, last, clockVars, historyVars, usageVars,
                 serverVars>>

\* handleBatchParaphrase: the texts that are not blank are sent, if there
\* are any, and the server admits the request
HandleBatchParaphrase(c) ==
  /\ validTexts(batchTexts) # <<>>
  /\ Start(c, "batch", validTexts(batchTexts), "standard")

\* the batch bodies other clients send: those of Spec, and ten texts
AnyBatchBodies ==
  BatchBodies \cup {<<"batch", [i \in 1..MAX_BATCH |-> OneWord], "formal">>}

\* the AI call of the request's first text throws
FirstThrows(c) == AiThrows(c, {1})

NextBatch ==
  \/ AddBatchText
  \/ \E index \in 0..(Len(batchTexts) - 1) : RemoveBatchText(index)
  \/ \E index \in 0..(Len(batchTexts) - 1), value \in {NoText, OneWord} :
       UpdateBatchText(index, value)
  \/ ClearBatch
  \/ \E c \in Conns : HandleBatchParaphrase(c)
  \/ \E c \in Conns, b \in AnyBatchBodies : Reject(c, b[1], b[2], b[3])
  \/ \E c \in Conns, b \in AnyBatchBodies : Start(c, b[1], b[2], b[3])
  \/ \E c \in Conns : FirstThrows(c)

SpecBatch == Init /\ [][NextBatch]_vars

-----------------------------------------------------------------------------
(* The scores of checkGrammar and checkPlagiarism (server/lib/openai.ts):  *)
(* SpecScores.  The model answers a JSON object; the functions return its  *)
(* numbers normalised.  The other fields of the object play no part.       *)

MAX_SCORE == 100

DEFAULT_GRAMMAR_SCORE == 100

DEFAULT_SCORE == 50

Max(x, y) == IF x > y THEN x ELSE y

\* x || d: d when x is undefined or 0
Or(x, d) == IF ~x.present \/ x.value = 0 THEN d ELSE x.value

\* Math.max(0, Math.min(100, x || d))
Normalise(x, d) == Max(0, Min(MAX_SCORE, Or(x, d)))

\* the numbers the model answers: none, or an integer
RawScores ==
  {Raw(FALSE, 0)} \cup
  {Raw(TRUE, v) : v \in (0 - ScoreMargin)..(MAX_SCORE + ScoreMargin)}

InitScores ==
  /\ InitServer
  /\ diff = NoDiff
  /\ loop = NoLoop
  /\ \/ \E r \in RawScores :
          analysis = Analysis("grammar", "raw", [score |-> r], [score |-> 0])
     \/ \E r1 \in RawScores, r2 \in RawScores :
          analysis =
            Analysis("plagiarism", "raw",
                     [originalityScore |-> r1, aiContentProbability |-> r2],
                     [originalityScore |-> 0, aiContentProbability |-> 0])

\* checkGrammar returns
CheckGrammar ==
  /\ analysis.kind = "grammar" /\ analysis.pc = "raw"
  /\ analysis' =
       [analysis EXCEPT
          !.pc = "done",
          !.ret = [score |-> Normalise(analysis.raw.score,
                                        DEFAULT_GRAMMAR_SCORE)]]
  /\ UNCHANGED <<pageVars, last, clockVars, historyVars, usageVars,
                 serverVars>>

\* checkPlagiarism returns
CheckPlagiarism ==
  /\ analysis.kind = "plagiarism" /\ analysis.pc = "raw"
  /\ analysis' =
       [analysis EXCEPT
          !.pc = "done",
          !.ret = [originalityScore |->
                     Normalise(analysis.raw.originalityScore, DEFAULT_SCORE),
                   aiContentProbability |->
                     Normalise(analysis.raw.aiContentProbability,
                               DEFAULT_SCORE)]]
  /\ UNCHANGED <<pageVars, last, clockVars, historyVars, usageVars,
                 serverVars>>

NextScores == CheckGrammar \/ CheckPlagiarism

SpecScores == InitScores /\ [][NextScores]_vars

-----------------------------------------------------------------------------
(* Properties of the history methods (SpecHistory) *)

\* the items recorded and neither deleted nor cleared since
Live == Range(history) \cup evicted

\* C1: listHistory returns at most 50 items, all of them recorded and not
\* deleted or cleared since, and no such item it leaves out was created
\* (by createdAt) after one it returns: it returns the most recent ones.
C1_MostRecentKept ==
  LET ret == getHistory(history)
  IN  /\ Len(ret) <= HISTORY_LIMIT
      /\ Range(ret) \subseteq Live
      /\ \A x \in Live \ Range(ret) :
           \A y \in Range(ret) : x.createdAt <= y.createdAt

\* C1 witness: a full history after a deletion and an eviction, the evicted
\* item sharing its millisecond with a kept one
C1_Witness ==
  /\ Len(history) = HISTORY_LIMIT
  /\ deletedLog # <<>>
  /\ \E x \in evicted : \E y \in Range(history) : x.createdAt = y.createdAt

\* what a deleteHistoryItem(id) call must do
DeleteEffect(id) ==
  /\ last'.ok = (\E i \in 1..Len(history) : history[i].id = id)
  /\ history' = SelectSeq(history, LAMBDA x : x.id # id)
  /\ Len(history') = Len(history) - (IF last'.ok THEN 1 ELSE 0)
  /\ ~last'.ok => history' = history
  /\ UNCHANGED <<wordsUsedToday, lastResetDate, nextId>>

\* C5: deleteHistoryItem(id) returns true exactly when the id is stored and
\* then removes that item alone; otherwise it returns false and changes
\* nothing; so no id is ever deleted with result true twice.
C5_DeleteOnce ==
  /\ [][\A id \in DeleteTargets : DeleteHistoryItem(id) => DeleteEffect(id)]_vars
  /\ [](\A i, j \in 1..Len(deletedLog) :
          deletedLog[i] = deletedLog[j] => i = j)

\* C5 witness: a second deleteHistoryItem of an id already deleted has
\* returned false
C5_Witness ==
  /\ last.op = "deleteHistoryItem"
  /\ ~last.ok
  /\ last.arg \in Range(deletedLog)

-----------------------------------------------------------------------------
(* Properties of the store as a whole (SpecStore) *)

\* C28: the calls of addToHistory, getHistory, deleteHistoryItem and
\* clearHistory leave wordsUsedToday and lastResetDate as they were; the
\* calls of getUsageStats, addWordsUsed and resetDailyUsage leave the
\* history as it was; and after addToHistory and deleteHistoryItem every
\* stored item other than the one added, evicted or deleted is stored as
\* it was, in the same order.
C28_Independent ==
  [][/\ (StoreAdd \/ StoreList \/ StoreClear
          \/ \E id \in 0..MaxStored : StoreDelete(id)) =>
           UNCHANGED <<wordsUsedToday, lastResetDate>>
     /\ (GetUsageStats \/ StoreAddWords \/ ResetDailyUsage) =>
           UNCHANGED <<history, nextId>>
     /\ StoreAdd =>
           /\ SelectSeq(history', LAMBDA x : x.id # last'.item.id)
                = SelectSeq(history, LAMBDA x : x \in Range(history'))
           /\ Cardinality(Range(history) \ Range(history')) <= 1
     /\ \A id \in 0..MaxStored : StoreDelete(id) =>
           history' = SelectSeq(history, LAMBDA x : x.id # id)]_vars

\* C28 witness: resetDailyUsage found a positive counter and a history of
\* two items, one item having been deleted before, and left the two items
C28_Witness ==
  /\ last.op = "resetDailyUsage"
  /\ usageLog.resetFound > 0
  /\ wordsUsedToday = 0
  /\ deletedLog # <<>>
  /\ Len(history) = 2

-----------------------------------------------------------------------------
(* Properties of the usage methods (SpecUsage) *)

AddWordsUsedStep(count) == \E d2 \in LaterDates : AddWordsUsed(count, d2)

\* the stats returned last were returned today, by the call before
ReturnedToday ==
  /\ last.op \in {"getUsageStats", "addWordsUsed"}
  /\ last.stats.resetTime = today + 1

\* C3: on one calendar day, with no resetDailyUsage in between, the count
\* a getUsageStats or addWordsUsed call returns is never below the count
\* the call before returned; and the first addWordsUsed(c) of a calendar
\* day returns exactly c.  (The day is the same at both date reads of the
\* call.)
C3_MonotoneThenRestart ==
  [][/\ (GetUsageStats \/ \E c \in Counts : AddWordsUsedStep(c)) =>
          ((ReturnedToday /\ today' = today) =>
             last'.stats.wordsUsedToday >= last.stats.wordsUsedToday)
     /\ \A c \in Counts : AddWordsUsedStep(c) =>
          ((usageLog.addDay # today /\ today' = today) =>
             last'.stats.wordsUsedToday = c)]_vars

\* C3 witness: words were counted on an earlier day, and the first
\* addWordsUsed(c) of a later day returned c > 0
C3_Witness ==
  /\ last.op = "addWordsUsed"
  /\ usageLog.dropped > 0
  /\ last.arg > 0
  /\ last.stats.wordsUsedToday = last.arg

\* C8: resetDailyUsage leaves the counter at 0 and the date at today's, and
\* every getUsageStats that follows it with no addWordsUsed in between
\* returns wordsUsedToday = 0, whatever the counter and the date were.
C8_ResetZeroes ==
  [][/\ ResetDailyUsage => wordsUsedToday' = 0 /\ lastResetDate' = today
     /\ (usageLog.resetFound >= 0 /\ GetUsageStats) =>
          last'.stats.wordsUsedToday = 0]_vars

\* C8 witness: resetDailyUsage found the counter above the daily limit,
\* and the getUsageStats after it has returned 0
C8_Witness ==
  /\ last.op = "getUsageStats"
  /\ usageLog.resetFound > DAILY_WORD_LIMIT
  /\ last.stats.wordsUsedToday = 0

\* C9: on one calendar day addWordsUsed(count) returns the previous count
\* plus count, above the daily limit as well, and the dailyLimit it returns
\* is 5000.
C9_NoCap ==
  [][\A c \in Counts : AddWordsUsedStep(c) =>
        /\ last'.stats.dailyLimit = 5000
        /\ (lastResetDate = today /\ today' = today) =>
              last'.stats.wordsUsedToday = wordsUsedToday + c]_vars

\* C9 witness: addWordsUsed has returned a count above the daily limit
C9_Witness ==
  /\ last.op = "addWordsUsed"
  /\ last.stats.wordsUsedToday > DAILY_WORD_LIMIT
  /\ last.arg > 0
  /\ usageLog.dropped = 0

-----------------------------------------------------------------------------
(* Properties of the server (Spec) *)

\* the wordsUsedToday a getUsageStats call returns at this moment
EffectiveWords == IF lastResetDate = today THEN wordsUsedToday ELSE 0

\* C2: a valid paraphrase or batch request whose total word count added to
\* the current wordsUsedToday is strictly above 5000 is answered 429 in the
\* step that reads the stats: it ends there with no AI call started, the
\* counter not added to and no history item recorded; every other valid
\* request, one whose total equals the limit exactly included, goes on to
\* its AI calls.
C2_QuotaCheck ==
  /\ [][\A c \in Conns, b \in Bodies : Start(c, b[1], b[2], b[3]) =>
          IF EffectiveWords + TotalWords(b[2]) > DAILY_WORD_LIMIT
          THEN /\ resp'.status = 429
               /\ reqs'[c] = Idle
               /\ last'.op = "getUsageStats"
               /\ wordsUsedToday' = EffectiveWords
               /\ UNCHANGED <<history, nextId>>
          ELSE /\ reqs'[c].pc = "ai"
               /\ resp' = resp]_vars
  /\ [](resp.status = 429 =>
          /\ resp.recorded = 0
          /\ resp.stats.dailyLimit = DAILY_WORD_LIMIT
          /\ resp.stats.wordsUsedToday + resp.words > DAILY_WORD_LIMIT)

\* C2 witness: a request whose total was exactly the limit was served, and
\* the one-word request after it is answered 429
C2_Witness ==
  /\ resp.status = 429
  /\ resp.stats.wordsUsedToday = DAILY_WORD_LIMIT
  /\ resp.words = 1
  /\ history # <<>>

\* a step of a handler that calls getUsageStats or addWordsUsed
UsageCall ==
  \/ \E c \in Conns, b \in Bodies : Start(c, b[1], b[2], b[3])
  \/ \E c \in Conns : GetUsage(c)
  \/ \E c \in Conns, d2 \in LaterDates : AiAnswers(c, d2)

\* C4: every step that calls getUsageStats or addWordsUsed ends with
\* lastResetDate at the current date; if the date on entry differed from
\* lastResetDate the count it returns holds none of the earlier words (0
\* from getUsageStats; from addWordsUsed the count just added, or 0 when
\* midnight fell inside the call); and no other step (the clock, the
\* history operations, the 400 and 500 answers) changes the counter or the
\* date.
C4_RolloverOnUsageCalls ==
  [][/\ ((\E c \in Conns, b \in Bodies : Start(c, b[1], b[2], b[3]))
          \/ (\E c \in Conns : GetUsage(c))) =>
          /\ lastResetDate' = today'
          /\ last'.stats.wordsUsedToday = EffectiveWords
     /\ \A c \in Conns, d2 \in LaterDates : AiAnswers(c, d2) =>
          /\ lastResetDate' = today'
          /\ lastResetDate # today =>
                last'.stats.wordsUsedToday =
                  (IF today' = today THEN reqs[c].words ELSE 0)
     /\ (wordsUsedToday' # wordsUsedToday \/ lastResetDate' # lastResetDate) =>
          UsageCall]_vars

\* C4 witness: words were counted, midnight passed, and the GET /api/usage
\* after it returned 0
C4_Witness ==
  /\ resp.kind = "usage"
  /\ last.op = "getUsageStats"
  /\ usageLog.dropped > 0
  /\ resp.stats.wordsUsedToday = 0
  /\ lastResetDate = today

\* C6: getHistory returns every stored item exactly once, and an item
\* created later (ids are issued in creation order) never comes after an
\* item created earlier.
C6_NewestFirst ==
  LET ret == getHistory(history)
  IN  /\ Len(ret) = Len(history)
      /\ Range(ret) = Range(history)
      /\ \A i, j \in 1..Len(ret) : i < j => ret[i].id > ret[j].id

\* C7: the step of DELETE /api/history leaves a history of which getHistory
\* returns the empty sequence, and leaves wordsUsedToday and lastResetDate
\* as they were.
C7_ClearEmpties ==
  [][(\E c \in Conns : ClearAll(c)) =>
        /\ getHistory(history') = <<>>
        /\ UNCHANGED <<wordsUsedToday, lastResetDate>>]_vars

\* C7 witness: clearHistory found items and a counter above 0
C7_Witness ==
  /\ last.op = "clearHistory"
  /\ last.arg > 0
  /\ wordsUsedToday > 0
  /\ history = <<>>

\* C10: the steps of a request answered 400 or 500 leave the history and
\* the usage as they were: the 400 step and the 500 step change neither
\* the history nor the counter nor the date, and the step that reads the
\* stats before the AI calls changes neither the history nor the count
\* getUsageStats returns (it resets the stored counter if the date has
\* changed, as every getUsageStats does); no such request records an item.
C10_FailureLeavesNoTrace ==
  /\ [][/\ (\/ \E c \in Conns, b \in Bodies : Reject(c, b[1], b[2], b[3])
            \/ \E c \in Conns : \E failed \in SUBSET (1..Len(reqs[c].texts)) :
                  AiThrows(c, failed)) =>
              /\ resp'.status \in {400, 500}
              /\ UNCHANGED <<history, nextId, wordsUsedToday, lastResetDate>>
        /\ (\E c \in Conns, b \in Bodies : Start(c, b[1], b[2], b[3])) =>
              /\ UNCHANGED <<history, nextId>>
              /\ wordsUsedToday' = EffectiveWords
              /\ EffectiveWords' = EffectiveWords]_vars
  /\ [](resp.status \in {400, 500} => resp.recorded = 0)

\* C10 witness: after a served request, a batch of two texts is answered
\* 500 with one of its AI calls having thrown
C10_Witness ==
  /\ resp.status = 500
  /\ resp.kind = "batch"
  /\ Cardinality(resp.failed) = 1
  /\ wordsUsedToday > 0
  /\ history # <<>>

\* C11: a batch request adds to the counter in one step only, the one after
\* its AI calls, and by the sum of its texts' word counts; each of its
\* recording steps stores one new item, the k-th step the k-th text with
\* that text's own word count and the batch's mode; and it answers 200 in
\* the step that records its last text, having recorded one item per text.
C11_BatchAccounting ==
  [][/\ \A c \in Conns, d2 \in LaterDates :
          (AiAnswers(c, d2) /\ reqs[c].kind = "batch") =>
            /\ last'.arg = TotalWords(reqs[c].texts)
            /\ today' = today =>
                  wordsUsedToday' = EffectiveWords + TotalWords(reqs[c].texts)
     /\ \A c \in Conns : (Record(c) /\ reqs[c].kind = "batch") =>
          LET k == reqs[c].recorded + 1
              n == Len(reqs[c].texts)
          IN  /\ UNCHANGED <<wordsUsedToday, lastResetDate>>
              /\ Len(history') = Len(history) + 1
              /\ history'[Len(history')].id \notin Ids(history)
              /\ history'[Len(history')].originalText = reqs[c].texts[k]
              /\ history'[Len(history')].wordCount = countWords(reqs[c].texts[k])
              /\ history'[Len(history')].mode = reqs[c].mode
              /\ IF k = n
                 THEN resp'.status = 200 /\ resp'.recorded = n /\ reqs'[c] = Idle
                 ELSE reqs'[c].pc = "counted" /\ reqs'[c].recorded = k
                        /\ resp' = resp]_vars

\* C11 witness: a batch of a one-word text and a 4999-word text was served:
\* the counter stands at 5000 and the history holds an item of each count
C11_Witness ==
  /\ resp.kind = "batch" /\ resp.status = 200 /\ resp.recorded = 2
  /\ wordsUsedToday = DAILY_WORD_LIMIT
  /\ \E x, y \in Range(history) :
       /\ x.wordCount = 1 /\ y.wordCount = DAILY_WORD_LIMIT - 1
       /\ x.mode = y.mode

\* C12: a batch request whose texts number 0 or more than 10 is never
\* admitted: it is answered 400 in a step that calls no store method and
\* starts no AI call; so the batch requests whose AI calls are pending have
\* 1 to 10 texts; and the batch list of the page never has more than 10
\* entries, so what the page sends passes the size check.
C12_BatchSize ==
  /\ [](Len(batchTexts) <= 10)
  /\ [](\A c \in Conns : (reqs[c].kind = "batch" /\ reqs[c].pc = "ai") =>
          (1 <= Len(reqs[c].texts) /\ Len(reqs[c].texts) <= 10))
  /\ [][\A c \in Conns, b \in AnyBatchBodies :
          (Len(b[2]) = 0 \/ Len(b[2]) > 10) =>
            /\ ~Start(c, b[1], b[2], b[3])
            /\ Reject(c, b[1], b[2], b[3]) =>
                  /\ resp'.status = 400
                  /\ reqs'[c] = Idle
                  /\ UNCHANGED <<last, history, nextId, wordsUsedToday,
                                 lastResetDate>>]_vars

\* C12 witness: the batch list is full, a batch of eleven texts was answered
\* 400, and a batch of ten texts is at its AI calls
C12_Witness ==
  /\ Len(batchTexts) = BATCH_LIST_MAX
  /\ resp.status = 400 /\ resp.kind = "batch"
  /\ \E c \in Conns : reqs[c].pc = "ai" /\ Len(reqs[c].texts) = 10

\* C18: every addToHistory call returns its item, which is then stored;
\* it removes no entry while the count after insertion is at most 50, and
\* otherwise exactly one entry, no other entry having a smaller createdAt;
\* the size after the call is min(size before + 1, 50).
C18_EvictOneOldest ==
  [][AddToHistory =>
       LET removed == Range(history) \ Range(history')
           all     == Range(history) \cup {last'.item}
       IN  /\ last'.op = "addToHistory"
           /\ last'.item \in Range(history')
           /\ last'.item \notin Range(history)
           /\ Range(history') = all \ removed
           /\ Len(history') =
                (IF Len(history) + 1 < 50 THEN Len(history) + 1 ELSE 50)
           /\ IF Len(history) + 1 > 50
              THEN /\ Cardinality(removed) = 1
                   /\ \A x \in removed, y \in all : x.createdAt <= y.createdAt
              ELSE removed = {}]_vars

\* C18 witness: addToHistory found 50 entries, the oldest of them alone in
\* its millisecond, and evicted it
C18_Witness ==
  /\ last.op = "addToHistory"
  /\ Len(history) = HISTORY_LIMIT
  /\ last.item \in Range(history)
  /\ \E x \in evicted : \A y \in Range(history) : x.createdAt < y.createdAt

\* C27: when addToHistory has returned, the item it returned is stored (it
\* is the entry inserted last, and getHistory returns it), whether or not
\* the call evicted an entry and whatever the createdAt of the stored
\* entries, the new item's createdAt included.
C27_NewItemStays ==
  last.op = "addToHistory" =>
    /\ history # <<>>
    /\ history[Len(history)] = last.item
    /\ last.item \in Range(getHistory(history))
    /\ last.item \notin evicted
    /\ \A x \in evicted : x.id < last.item.id

\* C27 witness: addToHistory found 50 entries of one millisecond, added an
\* item of that same millisecond and evicted an entry
C27_Witness ==
  /\ last.op = "addToHistory"
  /\ Len(history) = HISTORY_LIMIT
  /\ evicted # {}
  /\ \A x \in evicted \cup Range(history) : x.createdAt = last.item.createdAt

\* C19: under any interleaving of concurrent paraphrase and batch
\* handlers wordsUsedToday never exceeds dailyLimit.
C19_NeverOverLimit == wordsUsedToday <= DAILY_WORD_LIMIT

\* C20: when the paraphrase and batch requests are handled one after
\* another, wordsUsedToday is at most dailyLimit in every reachable state,
\* across day rollovers as well, and so is every count the store returns.
C20_SerialWithinLimit ==
  /\ wordsUsedToday <= DAILY_WORD_LIMIT
  /\ last.stats.wordsUsedToday <= DAILY_WORD_LIMIT

\* C20 witness: the limit was reached on one day and, after midnight, a
\* request of 5000 words was served again
C20_Witness ==
  /\ wordsUsedToday = DAILY_WORD_LIMIT
  /\ lastResetDate = today /\ today > 0
  /\ \E x, y \in Range(history) : x.id # y.id
  /\ resp.status = 200

\* C21: a paraphrase request that is served calls addWordsUsed once, with
\* the word count of the submitted text, in the step after its AI call,
\* and addToHistory once, in the step after that, which answers 200; an
\* item is added to the history only by a handler whose words are counted,
\* and a handler gets there only through its addWordsUsed step.
C21_CountThenRecord ==
  /\ [][/\ \A c \in Conns, d2 \in LaterDates :
             (AiAnswers(c, d2) /\ reqs[c].kind = "paraphrase") =>
               /\ last'.op = "addWordsUsed"
               /\ last'.arg = countWords(reqs[c].texts[1])
               /\ reqs'[c].pc = "counted" /\ reqs'[c].recorded = 0
               /\ UNCHANGED <<history, nextId>>
               /\ today' = today =>
                     wordsUsedToday' =
                       EffectiveWords + countWords(reqs[c].texts[1])
        /\ \A c \in Conns : (Record(c) /\ reqs[c].kind = "paraphrase") =>
               /\ last'.op = "addToHistory"
               /\ last'.item \in Range(history')
               /\ last'.item.originalText = reqs[c].texts[1]
               /\ last'.item.wordCount = countWords(reqs[c].texts[1])
               /\ nextId' = nextId + 1
               /\ UNCHANGED <<wordsUsedToday, lastResetDate>>
               /\ resp'.status = 200 /\ resp'.recorded = 1
               /\ reqs'[c] = Idle
        /\ nextId' # nextId =>
               \E c \in Conns : reqs[c].pc = "counted" /\ Record(c)
        /\ \A c \in Conns :
               (reqs'[c].pc = "counted" /\ reqs[c].pc # "counted") =>
                 /\ reqs[c].pc = "ai"
                 /\ last'.op = "addWordsUsed"
                 /\ last'.arg = TotalWords(reqs[c].texts)]_vars
  /\ [](\A c \in Conns : reqs[c].pc \in {"idle", "ai"} => reqs[c].recorded = 0)

\* C21 witness: a paraphrase request of one word was served, its item with
\* word count 1 and a paraphrase of two words was stored last, while
\* another request awaits its AI call
C21_Witness ==
  /\ resp.kind = "paraphrase" /\ resp.status = 200 /\ resp.recorded = 1
  /\ last.op = "addToHistory"
  /\ last.item.wordCount = 1
  /\ countWords(last.item.paraphrasedText) = 2
  /\ wordsUsedToday = 1
  /\ \E c \in Conns : reqs[c].pc = "ai"

\* C29: DELETE /api/history/:id answers 200 when the id is stored, and the
\* history is then the history without that item; it answers 404 when the
\* id is not stored, and the history is as it was; an id deleted with
\* success is never stored again, so the same DELETE repeated answers 404.
C29_DeleteAnswers ==
  /\ [][\A c \in Conns, id \in 0..nextId : DeleteItem(c, id) =>
          /\ resp'.kind = "delete"
          /\ reqs'[c] = Idle
          /\ IF \E i \in 1..Len(history) : history[i].id = id
             THEN /\ resp'.status = 200
                  /\ history' = SelectSeq(history, LAMBDA x : x.id # id)
                  /\ Len(history') = Len(history) - 1
             ELSE /\ resp'.status = 404
                  /\ history' = history
          /\ id \in Range(deletedLog) => resp'.status = 404]_vars
  /\ [](\A i \in 1..Len(deletedLog) : deletedLog[i] \notin Ids(history))

\* C29 witness: the DELETE of an item was answered 200 and the same DELETE
\* after it 404, another item being stored all along
C29_Witness ==
  /\ resp.kind = "delete" /\ resp.status = 404
  /\ last.op = "deleteHistoryItem"
  /\ last.arg \in Range(deletedLog)
  /\ started = 2
  /\ history # <<>>

-----------------------------------------------------------------------------
(* Properties of the text diff (SpecDiff) *)

\* the segments returned, each as its words and its type
SegmentWords ==
  [n \in 1..Len(diff.segments) |->
     [words |-> diff.segments[n].text.words, type |-> diff.segments[n].type]]

\* C13: if original or modified is the empty string, computeTextDiff
\* returns exactly one segment: the whole modified string, typed unchanged.
C13_EmptyInput ==
  (diff.pc = "done" /\ (diff.original = Empty \/ diff.modified = Empty)) =>
    diff.segments = <<[text |-> diff.modified, type |-> "unchanged"]>>

\* C13 witness: the empty string was compared with two words followed by
\* white space, and the one segment returned is that string
C13_Witness ==
  /\ diff.pc = "done"
  /\ diff.original = Empty
  /\ Len(diff.modified.words) = 2 /\ diff.modified.trail
  /\ Len(diff.segments) = 1

\* C14 as stated: for every non-empty t, computeTextDiff(t, t) is a single
\* unchanged segment of all words of t, and the change percentage is 0.
C14_SelfDiffAnyText ==
  (diff.pc = "done" /\ diff.original = diff.modified
     /\ diff.modified # Empty) =>
    /\ SegmentWords = <<[words |-> diff.modified.words, type |-> "unchanged"]>>
    /\ diff.percentage = 0

\* C14 amended: for every t with at least one word, computeTextDiff(t, t)
\* is a single unchanged segment of all words of t; a t of white space
\* only gives no segment; for every non-empty t the change percentage is 0.
C14_SelfDiff ==
  (diff.pc = "done" /\ diff.original = diff.modified
     /\ diff.modified # Empty) =>
    /\ diff.modified.words # <<>> =>
         SegmentWords =
           <<[words |-> diff.modified.words, type |-> "unchanged"]>>
    /\ diff.modified.words = <<>> => diff.segments = <<>>
    /\ diff.percentage = 0

\* C14 witness: a text of three words, one of them twice, with white space
\* at both ends was compared with itself
C14_Witness ==
  /\ diff.pc = "done"
  /\ diff.original = diff.modified
  /\ diff.modified.lead /\ diff.modified.trail
  /\ Len(diff.modified.words) = 3
  /\ diff.modified.words[1] = diff.modified.words[3]
  /\ Len(diff.segments) = 1

\* modified is original with the word at place p replaced by a word that
\* original does not have, compared in lower case
ReplacedAt(p) ==
  /\ diff.original.lead = diff.modified.lead
  /\ diff.original.trail = diff.modified.trail
  /\ Len(diff.original.words) = Len(diff.modified.words)
  /\ p \in 1..Len(diff.modified.words)
  /\ \A q \in 1..Len(diff.modified.words) :
       q # p => diff.modified.words[q] = diff.original.words[q]
  /\ \A q \in 1..Len(diff.original.words) :
       Lower(diff.original.words[q]) # Lower(diff.modified.words[p])

\* C15: when modified is original with exactly one word replaced by a word
\* that original does not have, the segments are the unchanged words
\* before it (if any), the replaced word typed changed, and the unchanged
\* words after it (if any): at most three segments.
C15_OneWordReplaced ==
  diff.pc = "done" =>
    \A p \in 1..MaxDiffWords : ReplacedAt(p) =>
      LET mw == diff.modified.words
          n  == Len(mw)
      IN  /\ Len(diff.segments) <= 3
          /\ SegmentWords =
               (IF p > 1
                THEN <<[words |-> SubSeq(mw, 1, p - 1), type |-> "unchanged"]>>
                ELSE <<>>)
               \o <<[words |-> <<mw[p]>>, type |-> "changed"]>>
               \o (IF p < n
                   THEN <<[words |-> SubSeq(mw, p + 1, n), type |-> "unchanged"]>>
                   ELSE <<>>)

\* C15 witness: the middle word of three was replaced, the words around it
\* being the same word in different case, and three segments came back
C15_Witness ==
  /\ diff.pc = "done"
  /\ ReplacedAt(2)
  /\ Len(diff.modified.words) = 3
  /\ diff.original.words[1] # diff.original.words[2]
  /\ Lower(diff.original.words[1]) = Lower(diff.original.words[2])
  /\ Len(diff.segments) = 3

\* the words of the segments typed changed
RECURSIVE WordsTypedChanged(_)
WordsTypedChanged(segments) ==
  IF segments = <<>> THEN 0
  ELSE WordsTypedChanged(Tail(segments))
         + (IF Head(segments).type = "changed"
            THEN Len(Head(segments).text.words) ELSE 0)

\* C16: for non-empty inputs calculateChangePercentage returns
\* round(100 * C / T), C the number of words in the segments typed changed
\* and T the number of words of modified; it returns 0 when an input is
\* empty or modified has no words.
C16_PercentageFormula ==
  diff.pc = "done" =>
    LET C == WordsTypedChanged(diff.segments)
        T == Len(diff.modified.words)
    IN  diff.percentage =
          (IF diff.original = Empty \/ diff.modified = Empty \/ T = 0
           THEN 0 ELSE (200 * C + T) \div (2 * T))

\* C17: if modified has at least one word and none of its words equals a
\* word of original in lower case, the change percentage is 100 (original
\* not being the empty string, for which C16 has 0).
C17_NothingInCommon ==
  (/\ diff.pc = "done"
   /\ diff.original # Empty
   /\ diff.modified.words # <<>>
   /\ \A p \in 1..Len(diff.modified.words), q \in 1..Len(diff.original.words) :
        Lower(diff.modified.words[p]) # Lower(diff.original.words[q])) =>
    diff.percentage = 100

\* C25: for every pair of strings, white space at the ends included,
\* calculateChangePercentage returns an integer from 0 to 100.
C25_PercentageInRange ==
  diff.pc = "done" => (0 <= diff.percentage /\ diff.percentage <= 100)

-----------------------------------------------------------------------------
(* Properties of the loop of computeTextDiff (SpecLoop) *)

\* the indices k with i <= k < min(i + 5, number of original words) whose
\* original word equals the modified word of this iteration in lower case
Window ==
  LET ow == Split(diff.original)
      w  == Split(diff.modified)[loop.j + 1]
  IN  {k \in 0..(Len(ow) - 1) :
         /\ loop.i <= k /\ k < loop.i + 5
         /\ Lower(ow[k + 1]) = Lower(w)}

\* C22: an iteration classifies its modified word unchanged if and only if
\* the window holds an equal original word; the cursor then becomes the
\* smallest such index plus one; otherwise the word is classified changed
\* and the cursor stays.
C22_WindowSearch ==
  [][Iterate =>
       IF Window # {}
       THEN /\ loop'.currentType = "unchanged"
            /\ \E k \in Window :
                 /\ \A k2 \in Window : k <= k2
                 /\ loop'.i = k + 1
       ELSE /\ loop'.currentType = "changed"
            /\ loop'.i = loop.i]_vars

\* C22 witness: with the cursor at 0 the word was not found, the original
\* having it at index 5 alone, beyond the window
C22_Witness ==
  /\ loop.pc = "loop" /\ loop.j = 1 /\ loop.i = 0
  /\ loop.currentType = "changed"
  /\ LET ow == Split(diff.original)
         w  == Split(diff.modified)[1]
     IN  /\ Len(ow) > 5
         /\ Lower(ow[6]) = Lower(w)
         /\ \A k \in 1..5 : Lower(ow[k]) # Lower(w)

\* C23: during a run the cursor never decreases and never exceeds the
\* number of original words, and the original indices found, in the order
\* of the modified words, are strictly increasing (so no original word is
\* matched twice) and lie below the cursor.
C23_CursorForward ==
  /\ [][Iterate => loop'.i >= loop.i]_vars
  /\ [](/\ 0 <= loop.i /\ loop.i <= Len(Split(diff.original))
        /\ \A a, b \in 1..Len(loop.matched) :
              a < b => loop.matched[a] < loop.matched[b]
        /\ \A a \in 1..Len(loop.matched) :
              0 <= loop.matched[a] /\ loop.matched[a] < loop.i)

\* C23 witness: a run has ended with three words found, not at adjacent
\* indices, and the cursor at the end of an original of more than 5 words
C23_Witness ==
  /\ loop.pc = "done"
  /\ Len(loop.matched) = 3
  /\ loop.matched[1] + 1 < loop.matched[2]
  /\ loop.i = Len(Split(diff.original))
  /\ loop.i > 5

\* no two adjacent segments of s have the same type
Alternating(s) == \A n \in 1..(Len(s) - 1) : s[n].type # s[n + 1].type

\* C24: the segments pushed, and the segments returned for non-empty
\* inputs, alternate in type; an iteration pushes a segment only when the
\* classification flips, and then at most one, the segment built so far;
\* when it does not flip the segments stay and the word joins the segment
\* being built; and a segment pushed differs in type from the one being
\* built after it.
C24_SegmentsAlternate ==
  /\ [](Alternating(loop.segments))
  /\ []((diff.pc = "done" /\ diff.original # Empty /\ diff.modified # Empty)
          => Alternating(diff.segments))
  /\ [](loop.pc = "loop" /\ loop.segments # <<>> /\ loop.currentSegment # Empty
          => loop.segments[Len(loop.segments)].type # loop.currentType)
  /\ [][Iterate =>
          LET w == Split(diff.modified)[loop.j + 1]
          IN  IF loop'.currentType = loop.currentType
              THEN /\ loop'.segments = loop.segments
                   /\ loop'.currentSegment.words =
                        loop.currentSegment.words
                          \o (IF w = "" THEN <<>> ELSE <<w>>)
              ELSE /\ loop'.segments =
                        (IF loop.currentSegment = Empty THEN loop.segments
                         ELSE Append(loop.segments,
                                     [text |-> loop.currentSegment,
                                      type |-> loop.currentType]))
                   /\ loop'.currentSegment.words =
                        (IF w = "" THEN <<>> ELSE <<w>>)]_vars

\* C24 witness: for a modified string with white space at both ends two
\* segments were returned, the first of two words merged, typed changed
C24_Witness ==
  /\ diff.pc = "done"
  /\ Len(diff.segments) = 2
  /\ Len(diff.segments[1].text.words) = 2
  /\ diff.segments[1].type = "changed"
  /\ diff.modified.lead /\ diff.modified.trail

\* the words of the segments s, in segment order
RECURSIVE Flatten(_)
Flatten(s) ==
  IF s = <<>> THEN <<>> ELSE Head(s).text.words \o Flatten(Tail(s))

\* the words other than the empty word among the first n of ws
NonEmptyWords(ws, n) == SelectSeq(SubSeq(ws, 1, n), LAMBDA w : w # "")

\* C26: for non-empty inputs the words of the segments returned, read in
\* segment order, are the words of modified in their order; and during
\* the run the words of the segments pushed and of the segment being built
\* are the words of modified processed so far.  (What the run returns step
\* by step is what computeTextDiff returns.)
C26_WordsPreserved ==
  /\ (diff.pc = "done" /\ diff.original # Empty /\ diff.modified # Empty) =>
       /\ Flatten(diff.segments) = diff.modified.words
       /\ Flatten(diff.segments)
            = NonEmptyWords(Split(diff.modified), Len(Split(diff.modified)))
       /\ diff.segments = computeTextDiff(diff.original, diff.modified)
  /\ loop.pc = "loop" =>
       Flatten(loop.segments) \o loop.currentSegment.words
         = NonEmptyWords(Split(diff.modified), loop.j)

\* C26 witness: a modified string of three words, the first and the last
\* the same, with white space at both ends, came back in three segments
C26_Witness ==
  /\ diff.pc = "done"
  /\ diff.modified.lead /\ diff.modified.trail
  /\ Len(diff.modified.words) = 3
  /\ diff.modified.words[1] = diff.modified.words[3]
  /\ Len(diff.segments) = 3
  /\ Len(Split(diff.original)) > 5

-----------------------------------------------------------------------------
(* Properties of the scores (SpecScores) *)

\* min(100, max(0, s))
Clamped(s) == IF s < 0 THEN 0 ELSE IF s > 100 THEN 100 ELSE s

\* C30: for every integer s the model answers as a score, the score
\* returned is min(100, max(0, s)): for checkGrammar's score and for
\* checkPlagiarism's originalityScore and aiContentProbability.
C30_ScoresClamped ==
  analysis.pc = "done" =>
    \A f \in DOMAIN analysis.raw :
      analysis.raw[f].present =>
        analysis.ret[f] = Clamped(analysis.raw[f].value)

=============================================================================
